---------------------------- MODULE Spec2Model ----------------------------
(***************************************************************************)
(* A model of app/streamlit_app.py of polygon-smart-platform: the argument *)
(* coercion (convert_args), the deployment log kept in deployments.json    *)
(* (ensure_dirs, read_json, write_json, add_record, load_records), the     *)
(* write pipeline (deploy_contract, interact_with_contract) against a      *)
(* chain that is the environment, and the script run of main.              *)
(*                                                                         *)
(* Python strings are sequences of one-character strings, so that          *)
(* startswith, endswith, lower, split, strip, int() and str() are computed *)
(* character by character as the interpreter computes them.                *)
(***************************************************************************)
EXTENDS Integers, Sequences, FiniteSets, TLC

VARIABLES
    inputs_abi,   \* convert_args: the ABI input specs of the call
    args_raw,     \* convert_args: the raw form fields
    converted,    \* convert_args: NotCalled, or the outcome of the call
    file,         \* deployments.json: whether it exists, and its content
    clock,        \* what int(time.time()) returns
    txs,          \* the chain: the transactions the account has submitted, in order
    last,         \* the last call of the session: its inputs and its outcome
    run,          \* the script run of main: its place, widgets, messages, exception
    cache,        \* abi_cache: the templates whose ABI and bytecode are cached
    conc          \* two add_record calls step by step: place, list, file offset

coerceVars == <<inputs_abi, args_raw, converted>>
logVars == <<file, clock, txs, last>>
mainVars == <<run, cache>>

vars == <<inputs_abi, args_raw, converted, file, clock, txs, last, run, cache, conc>>

\* What an action of one part of the program leaves alone.
notCoerce == <<logVars, mainVars, conc>>
notLog == <<coerceVars, mainVars, conc>>
notMain == <<coerceVars, conc>>

----------------------------------------------------------------------------
(* Bounds of the model.                                                    *)

\* Longest raw form field enumerated character by character.
MaxRawLen == 3
\* Longest integer list whose textual forms are enumerated.
MaxArrLen == 3
\* Largest integer enumerated as a list element or a literal.
MaxElem == 3
\* Most records the log is let grow to (the log of the program is unbounded).
MaxLog == 2
\* Most transactions the account submits.
MaxTx == 2
\* Last value of the clock.
MaxClock == 1

----------------------------------------------------------------------------
(* Python str helpers.                                                     *)

DigitChars == <<"0", "1", "2", "3", "4", "5", "6", "7", "8", "9">>
Digits == {DigitChars[i] : i \in 1..10}
DigitVal(c) == (CHOOSE i \in 1..10 : DigitChars[i] = c) - 1

UpperChars == <<"A","B","C","D","E","F","G","H","I","J","K","L","M",
                "N","O","P","Q","R","S","T","U","V","W","X","Y","Z">>
LowerChars == <<"a","b","c","d","e","f","g","h","i","j","k","l","m",
                "n","o","p","q","r","s","t","u","v","w","x","y","z">>

\* str.lower() of one character.
LowerChar(c) ==
    IF \E i \in 1..26 : UpperChars[i] = c
    THEN LowerChars[CHOOSE i \in 1..26 : UpperChars[i] = c]
    ELSE c

\* str.lower()
lower(s) == [i \in 1..Len(s) |-> LowerChar(s[i])]

\* str.startswith(prefix)
startswith(s, p) == Len(p) <= Len(s) /\ SubSeq(s, 1, Len(p)) = p

\* str.endswith(suffix)
endswith(s, p) == Len(p) <= Len(s) /\ SubSeq(s, Len(s) - Len(p) + 1, Len(s)) = p

\* str.strip(): leading and trailing blanks removed.
RECURSIVE lstrip(_)
lstrip(s) == IF s # <<>> /\ s[1] = " " THEN lstrip(Tail(s)) ELSE s
RECURSIVE rstrip(_)
rstrip(s) == IF s # <<>> /\ s[Len(s)] = " " THEN rstrip(SubSeq(s, 1, Len(s) - 1)) ELSE s
strip(s) == rstrip(lstrip(s))

\* str.split(","): the pieces between commas, empty pieces included.
RECURSIVE split(_)
split(s) ==
    IF \E i \in 1..Len(s) : s[i] = ","
    THEN LET i == CHOOSE k \in 1..Len(s) : s[k] = "," /\ \A j \in 1..(k - 1) : s[j] # ","
         IN  <<SubSeq(s, 1, i - 1)>> \o split(SubSeq(s, i + 1, Len(s)))
    ELSE <<s>>

\* The value of a non-empty string of decimal digits.
RECURSIVE DigitsValue(_)
DigitsValue(s) ==
    IF Len(s) = 0 THEN 0
    ELSE 10 * DigitsValue(SubSeq(s, 1, Len(s) - 1)) + DigitVal(s[Len(s)])

AllDigits(s) == s # <<>> /\ \A i \in 1..Len(s) : s[i] \in Digits

\* str(n) of a Python int: the canonical decimal text.
RECURSIVE NatStr(_)
NatStr(n) == IF n < 10 THEN <<DigitChars[n + 1]>> ELSE NatStr(n \div 10) \o <<DigitChars[(n % 10) + 1]>>
str(n) == IF n < 0 THEN <<"-">> \o NatStr(-n) ELSE NatStr(n)

----------------------------------------------------------------------------
(* Outcomes: a returned value, or the exception the call ends with.        *)

Ok(v) == [ok |-> TRUE, val |-> v]
Raise(e) == [ok |-> FALSE, err |-> e]


(* Python values are tagged with their type: an int, a str (a sequence of  *)
(* characters), a bool, a list, or a dict (a function on a set of keys).    *)
PInt(n) == [kind |-> "int", val |-> n]
PStr(s) == [kind |-> "str", val |-> s]
PBool(b) == [kind |-> "bool", val |-> b]
PList(l) == [kind |-> "list", val |-> l]

\* int(x): an int is returned as it is; a str is stripped and read as an
\* optionally signed run of decimal digits; anything else is an error.
int(x) ==
    IF x.kind = "int" THEN Ok(x.val)
    ELSE IF x.kind # "str" THEN Raise("TypeError")
    ELSE LET s == strip(x.val)
             signed == s # <<>> /\ s[1] \in {"-", "+"}
             body == IF signed THEN Tail(s) ELSE s
         IN  IF AllDigits(body)
             THEN Ok(IF signed /\ s[1] = "-" THEN 0 - DigitsValue(body) ELSE DigitsValue(body))
             ELSE Raise("ValueError")

\* str(x) of a value; a list prints as its repr, "[a, b]".
RECURSIVE StrOf(_)
RECURSIVE JoinRepr(_)
JoinRepr(l) ==
    IF l = <<>> THEN <<>>
    ELSE IF Len(l) = 1 THEN StrOf(l[1])
    ELSE StrOf(l[1]) \o <<",", " ">> \o JoinRepr(Tail(l))
StrOf(x) ==
    IF x.kind = "int" THEN str(x.val)
    ELSE IF x.kind = "list" THEN <<"[">> \o JoinRepr(x.val) \o <<"]">>
    ELSE x.val

----------------------------------------------------------------------------
(* json.loads, on texts made of digits, "-", ",", "[", "]" and blanks: a   *)
(* recursive descent over JSON arrays and integer numbers.  A parse gives  *)
(* [ok, val, rest]; any other character ends it with JSONDecodeError.      *)

ParseFail == [ok |-> FALSE, val |-> PInt(0), rest |-> <<>>]
Parsed(v, r) == [ok |-> TRUE, val |-> v, rest |-> r]

\* A JSON number: "-"? ( "0" | [1-9][0-9]* ), taken as far as it matches.
RECURSIVE DigitRun(_)
DigitRun(s) == IF s # <<>> /\ s[1] \in Digits THEN <<s[1]>> \o DigitRun(Tail(s)) ELSE <<>>

ParseNumber(s) ==
    LET neg == s # <<>> /\ s[1] = "-"
        t == IF neg THEN Tail(s) ELSE s
        digs == IF t # <<>> /\ t[1] = "0" THEN <<"0">> ELSE DigitRun(t)
        n == DigitsValue(digs)
    IN  IF digs = <<>> THEN ParseFail
        ELSE Parsed(PInt(IF neg THEN 0 - n ELSE n), SubSeq(t, Len(digs) + 1, Len(t)))

RECURSIVE ParseValue(_)
RECURSIVE ParseElems(_, _)
\* After "[" or ",": a value, then "," and more, or "]".
ParseElems(s, acc) ==
    LET v == ParseValue(s)
        r == lstrip(v.rest)
    IN  IF ~v.ok \/ r = <<>> THEN ParseFail
        ELSE IF r[1] = "," THEN ParseElems(Tail(r), Append(acc, v.val))
        ELSE IF r[1] = "]" THEN Parsed(PList(Append(acc, v.val)), Tail(r))
        ELSE ParseFail
ParseValue(s) ==
    LET t == lstrip(s)
    IN  IF t = <<>> THEN ParseFail
        ELSE IF t[1] = "["
             THEN LET u == lstrip(Tail(t))
                  IN  IF u # <<>> /\ u[1] = "]" THEN Parsed(PList(<<>>), Tail(u))
                      ELSE ParseElems(u, <<>>)
        ELSE IF t[1] = "-" \/ t[1] \in Digits THEN ParseNumber(t)
        ELSE ParseFail

json_loads(s) ==
    LET v == ParseValue(s)
    IN  IF v.ok /\ lstrip(v.rest) = <<>> THEN Ok(v.val) ELSE Raise("JSONDecodeError")

----------------------------------------------------------------------------
(* Web3.to_checksum_address, a library call: an optional "0x" and a        *)
(* non-empty run of hex digits is an address (its 40-digit length is left  *)
(* out), and the EIP-55 casing is stood for by one fixed casing (hex       *)
(* letters in upper case), which like it ignores the case of the input.    *)

HexLetters == {"a", "b", "c", "d", "e", "f"}
UpperChar(c) ==
    IF \E i \in 1..26 : LowerChars[i] = c
    THEN UpperChars[CHOOSE i \in 1..26 : LowerChars[i] = c]
    ELSE c
AddrBody(s) == IF startswith(lower(s), <<"0", "x">>) THEN SubSeq(s, 3, Len(s)) ELSE s
IsHexBody(b) == b # <<>> /\ \A i \in 1..Len(b) : LowerChar(b[i]) \in Digits \cup HexLetters
to_checksum_address(x) ==
    IF x.kind # "str" THEN Raise("TypeError")
    ELSE IF IsHexBody(AddrBody(x.val))
         THEN Ok(PStr(<<"0", "x">> \o [i \in 1..Len(AddrBody(x.val)) |-> UpperChar(AddrBody(x.val)[i])]))
         ELSE Raise("ValueError")

----------------------------------------------------------------------------
(* convert_args                                                            *)

T_uint == <<"u", "i", "n", "t">>
T_int == <<"i", "n", "t">>
T_address == <<"a", "d", "d", "r", "e", "s", "s">>
T_bool == <<"b", "o", "o", "l">>
T_string == <<"s", "t", "r", "i", "n", "g">>
T_bytes == <<"b", "y", "t", "e", "s">>
T_brackets == <<"[", "]">>
T_uint256 == T_uint \o <<"2", "5", "6">>
T_int8 == T_int \o <<"8">>

\* The strings the bool rule accepts.
TrueWords == {<<"1">>, <<"t", "r", "u", "e">>, <<"y", "e", "s">>, <<"y">>, <<"t">>}

\* Each element of a list through f, stopping at the first exception.
RECURSIVE MapInt(_)
MapInt(arr) ==
    IF arr = <<>> THEN Ok(<<>>)
    ELSE LET h == int(arr[1])
         IN  IF ~h.ok THEN h
             ELSE LET t == MapInt(Tail(arr))
                  IN  IF ~t.ok THEN t ELSE Ok(<<PInt(h.val)>> \o t.val)
RECURSIVE MapAddress(_)
MapAddress(arr) ==
    IF arr = <<>> THEN Ok(<<>>)
    ELSE LET h == to_checksum_address(arr[1])
         IN  IF ~h.ok THEN h
             ELSE LET t == MapAddress(Tail(arr))
                  IN  IF ~t.ok THEN t ELSE Ok(<<h.val>> \o t.val)

\* [x.strip() for x in str(raw).split(",") if x.strip() != ""]
RECURSIVE StripNonEmpty(_)
StripNonEmpty(pieces) ==
    IF pieces = <<>> THEN <<>>
    ELSE (IF strip(pieces[1]) # <<>> THEN <<PStr(strip(pieces[1]))>> ELSE <<>>)
         \o StripNonEmpty(Tail(pieces))

\* The list an array field stands for (line 202).
ArrayOf(raw) ==
    IF startswith(strip(raw), <<"[">>) THEN json_loads(raw)
    ELSE Ok(PList(StripNonEmpty(split(raw))))

\* A mis-reading of the integer rule: int(raw, 16).
RECURSIVE HexValue(_)
HexValue(s) ==
    IF Len(s) = 0 THEN 0
    ELSE 16 * HexValue(SubSeq(s, 1, Len(s) - 1)) + DigitVal(s[Len(s)])
IntRuleBase16(raw) ==
    IF AllDigits(strip(raw)) THEN Ok(PInt(HexValue(strip(raw)))) ELSE Raise("ValueError")

\* converted.append(int(raw)) (line 193).
IntRule(raw) ==
    LET n == int(PStr(raw)) IN IF n.ok THEN Ok(PInt(n.val)) ELSE n

\* One (spec, raw) pair of the loop of convert_args.
ConvertOne(t, raw) ==
    IF startswith(t, T_uint) \/ startswith(t, T_int)
    THEN IntRule(raw)
    ELSE IF t = T_address THEN to_checksum_address(PStr(raw))
    ELSE IF t = T_bool THEN Ok(PBool(lower(raw) \in TrueWords))
    ELSE IF t = T_string THEN Ok(PStr(raw))
    ELSE IF endswith(t, T_brackets)
    THEN LET base == SubSeq(t, 1, Len(t) - 2)
             arr == ArrayOf(raw)
         IN  IF ~arr.ok THEN arr
             ELSE IF startswith(base, T_uint) \/ startswith(base, T_int)
                  THEN LET l == MapInt(arr.val.val) IN IF l.ok THEN Ok(PList(l.val)) ELSE l
             ELSE IF base = T_address
                  THEN LET l == MapAddress(arr.val.val) IN IF l.ok THEN Ok(PList(l.val)) ELSE l
             ELSE IF base = T_string
                  THEN Ok(PList([i \in 1..Len(arr.val.val) |-> PStr(StrOf(arr.val.val[i]))]))
             ELSE Raise("ValueError")
    ELSE Ok(PStr(raw))

\* zip(inputs_abi, args_raw) pairs positionally and stops at the shorter.
Min(a, b) == IF a < b THEN a ELSE b
RECURSIVE ConvertFrom(_, _, _)
ConvertFrom(abi, raws, i) ==
    IF i > Min(Len(abi), Len(raws)) THEN Ok(<<>>)
    ELSE LET h == ConvertOne(abi[i].type, raws[i])
         IN  IF ~h.ok THEN h
             ELSE LET t == ConvertFrom(abi, raws, i + 1)
                  IN  IF ~t.ok THEN t ELSE Ok(<<h.val>> \o t.val)
convert_args(abi, raws) == ConvertFrom(abi, raws, 1)

----------------------------------------------------------------------------
(* The inputs convert_args is run on.                                      *)

Input(n, t) == [name |-> n, type |-> t]

IntTags == {T_uint256, T_int8}
ScalarTags == IntTags \cup {T_address, T_bool, T_string, T_bytes \o <<"3", "2">>}
ArrayTags == {t \o T_brackets : t \in IntTags \cup {T_address, T_string, T_bool}}
TypeTags == ScalarTags \cup ArrayTags

RECURSIVE StringsOver(_, _)
StringsOver(alphabet, n) ==
    IF n = 0 THEN {<<>>}
    ELSE LET shorter == StringsOver(alphabet, n - 1)
         IN  shorter \cup {Append(s, c) : s \in {x \in shorter : Len(x) = n - 1}, c \in alphabet}

\* Every form field of at most MaxRawLen of these characters.
CoerceAlphabet == {"0", "1", "7", ",", " ", "[", "]", "-"}
ShortStrings == StringsOver(CoerceAlphabet, MaxRawLen)

\* Every string of at most MaxRawLen decimal digits.
DigitStrings == StringsOver(Digits, MaxRawLen) \ {<<>>}

\* A few longer fields: boolean words, addresses, a word that is no array.
ExtraRaws ==
    { <<"t","r","u","e">>, <<"T","R","U","E">>, <<"Y">>, <<"y","e","s">>, <<"n","o">>,
      <<"f","a","l","s","e">>, <<"0","x","a","B">>, <<"0","X","A","b">>, <<"0","x","g">>,
      <<"n","o","t","-","a","n","-","a","r","r","a","y">>, <<"[","[","1","]",",","7","]">> }

\* The integer lists whose two textual forms are enumerated.
ElemValues == 0..MaxElem \cup {10, 11}
IntLists == UNION {[1..n -> ElemValues] : n \in 0..MaxArrLen}

\* "[1,2,3]": the JSON-array form of a list.
RECURSIVE Joined(_, _)
Joined(l, sep) ==
    IF l = <<>> THEN <<>>
    ELSE IF Len(l) = 1 THEN str(l[1])
    ELSE str(l[1]) \o sep \o Joined(Tail(l), sep)
JsonForm(l) == <<"[">> \o Joined(l, <<",">>) \o <<"]">>
\* "1, 2, 3": the comma-separated form of a list.
CommaForm(l) == Joined(l, <<",", " ">>)
ListForms == {JsonForm(l) : l \in IntLists} \cup {CommaForm(l) : l \in IntLists}

\* Calls of more than one parameter, of equal and of unequal lengths.
PairAbi == <<Input(<<"n">>, T_uint256), Input(<<"a">>, T_address)>>
PairCalls ==
    { <<PairAbi, <<<<"4", "2">>, <<"0", "x", "A", "b">>>>>>,
      <<PairAbi, <<<<"4", "2">>>>>>,
      <<PairAbi, <<<<"x">>, <<"0", "x", "A", "b">>>>>>,
      <<PairAbi, <<<<"4", "2">>, <<"0", "x", "z">>>>>>,
      <<<<Input(<<"n">>, T_uint256)>>, <<<<"7">>, <<"8">>>>>>,
      <<<<>>, <<>>>> }

CoerceCalls ==
    {<<<<Input(<<"x">>, t)>>, <<r>>>> : t \in TypeTags, r \in ShortStrings \cup ExtraRaws}
    \cup {<<<<Input(<<"x">>, t)>>, <<r>>>> : t \in ArrayTags, r \in ListForms}
    \cup {<<<<Input(<<"x">>, t)>>, <<r>>>> : t \in IntTags, r \in DigitStrings}
    \cup PairCalls

NotCalled == Raise("NotCalled")

CoerceInputsAre(c) == inputs_abi = c[1] /\ args_raw = c[2] /\ converted = NotCalled

\* The call convert_args(inputs_abi, args_raw).
Convert ==
    /\ converted = NotCalled
    /\ converted' = convert_args(inputs_abi, args_raw)
    /\ UNCHANGED <<inputs_abi, args_raw>>
    /\ UNCHANGED notCoerce

----------------------------------------------------------------------------
(* Claims about convert_args, checked under SpecCoerce.                     *)

Called == converted # NotCalled
IntArrayCall == Len(inputs_abi) = 1 /\ inputs_abi[1].type \in {t \o T_brackets : t \in IntTags}
UintCall == Len(inputs_abi) = 1 /\ Len(args_raw) = 1 /\ inputs_abi[1].type = T_uint256

\* The outcome r is the one-element argument list holding the integers of l.
IsIntListResult(r, l) ==
    /\ r.ok /\ Len(r.val) = 1
    /\ r.val[1].kind = "list" /\ Len(r.val[1].val) = Len(l)
    /\ \A i \in 1..Len(l) : r.val[1].val[i].kind = "int" /\ r.val[1].val[i].val = l[i]

\* C1: for an integer array spec (uint256[], int8[]) the JSON-array form and
\* the comma-separated form of an integer list both convert to the
\* one-element argument list holding that list of integers (stated for the
\* non-empty lists, whose two forms are both non-empty fields).
C1_ArrayFormsAgree ==
    \A l \in IntLists \ {<<>>} :
        (Called /\ IntArrayCall /\ args_raw \in {<<JsonForm(l)>>, <<CommaForm(l)>>})
            => IsIntListResult(converted, l)

\* A decimal literal without leading zeros: "0", or digits not starting with "0".
Canonical(s) == AllDigits(s) /\ (Len(s) > 1 => s[1] # "0")

\* C7 as stated: for a uint256 spec and every non-empty string s of decimal
\* digits, leading zeros included, str(convert_args(...)[0]) = s.
C7_RoundTrip ==
    (Called /\ UintCall /\ AllDigits(args_raw[1]))
        => (converted.ok /\ str(converted.val[1].val) = args_raw[1])

\* C7 as amended: for a uint256 spec and every decimal literal s without
\* leading zeros, str(convert_args(...)[0]) = s.
C7_CanonicalRoundTrip ==
    (Called /\ UintCall /\ Canonical(args_raw[1]))
        => (converted.ok /\ str(converted.val[1].val) = args_raw[1])

\* C7: a literal of several digits without leading zeros has been converted.
C7_Witness ==
    /\ Called /\ UintCall /\ converted.ok
    /\ Canonical(args_raw[1]) /\ Len(args_raw[1]) >= 2

----------------------------------------------------------------------------
(* deployments.json.  The text of the document is kept record by record:   *)
(* the log [r1, r2] is the cells r1, r2 and the closing bracket.  A file   *)
(* that is empty, stops before the closing bracket or goes on after it is  *)
(* no JSON document.                                                       *)

EndCell == [c |-> "end"]
RecCell(r) == [c |-> "rec", r |-> r]
NulCell == [c |-> "nul"]

NoFile == [exists |-> FALSE, cells |-> <<>>]

\* json.dump(data): the cells of the document of a list of records.
Doc(records) == [i \in 1..Len(records) |-> RecCell(records[i])] \o <<EndCell>>

\* json.load accepts the text.
IsDoc(cells) ==
    /\ Len(cells) >= 1
    /\ cells[Len(cells)].c = "end"
    /\ \A i \in 1..(Len(cells) - 1) : cells[i].c = "rec"
DocRecords(cells) == [i \in 1..(Len(cells) - 1) |-> cells[i].r]

\* read_json(p): None for a missing file, the parsed list, or the error of json.load.
read_json(f) ==
    IF ~f.exists THEN [ok |-> TRUE, none |-> TRUE, val |-> <<>>]
    ELSE IF IsDoc(f.cells) THEN [ok |-> TRUE, none |-> FALSE, val |-> DocRecords(f.cells)]
    ELSE [ok |-> FALSE, none |-> FALSE, val |-> <<>>]

\* x or []
OrEmpty(r) == IF r.none \/ r.val = <<>> THEN <<>> ELSE r.val

\* write_json(p, data), run to its end: the file holds the whole document.
write_json(f, data) == [exists |-> TRUE, cells |-> Doc(data)]

\* ensure_dirs without its test of DEPLOYMENTS_FILE.exists().
ensure_dirs_Always(f) == [exists |-> TRUE, cells |-> Doc(<<>>)]

\* ensure_dirs(): an absent deployments.json is created holding [].
ensure_dirs(f) == IF ~f.exists THEN [exists |-> TRUE, cells |-> Doc(<<>>)] ELSE f

\* The log as the program reads it: read_json(DEPLOYMENTS_FILE) or [].
Log == OrEmpty(read_json(file))

\* A dict is the sequence of its (key, value) pairs, in insertion order.
EmptyDict == <<>>

\* records.insert(0, r) in the place of records.append(r).
Appended_AtFront(records, r) == <<r>> \o records

\* records.append(r)
Appended(records, r) == Append(records, r)

\* The list add_record writes: [list, out], or the exception it raises
\* before it writes (lines 157-165).
NewRecords(f, t, network, ctype, address, tx_hash, constructor_args) ==
    LET records == read_json(f)
        addr == to_checksum_address(address)
    IN  IF ~records.ok THEN [list |-> <<>>, out |-> Raise("JSONDecodeError")]
        ELSE IF ~addr.ok THEN [list |-> <<>>, out |-> addr]
        ELSE [list |-> Appended(OrEmpty(records),
                          [time |-> t,
                           network |-> network,
                           contract_type |-> ctype,
                           address |-> addr.val.val,
                           tx_hash |-> tx_hash,
                           constructor_args |-> constructor_args]),
              out |-> Ok("None")]

\* add_record(...) at time t: [file, out], the file afterwards and the outcome.
add_record(f, t, network, ctype, address, tx_hash, constructor_args) ==
    LET n == NewRecords(f, t, network, ctype, address, tx_hash, constructor_args)
    IN  IF ~n.out.ok THEN [file |-> f, out |-> n.out]
        ELSE [file |-> write_json(f, n.list), out |-> n.out]

\* Optional[str]: None, or a string.
None == [some |-> FALSE, s |-> <<>>]
Some(s) == [some |-> TRUE, s |-> s]

\* A filter that tests for the text anywhere in the name, not at its start.
RECURSIVE Contains(_, _)
Contains(s, p) == startswith(s, p) \/ (s # <<>> /\ Contains(Tail(s), p))
RecordMatches_Contains(r, network_filter) == Contains(lower(r.network), lower(network_filter))

\* r["network"].lower().startswith(network_filter.lower())
RecordMatches(r, network_filter) == startswith(lower(r.network), lower(network_filter))

\* [r for r in records if ...]
RECURSIVE Comprehension(_, _)
Comprehension(records, network_filter) ==
    IF records = <<>> THEN <<>>
    ELSE (IF RecordMatches(records[1], network_filter) THEN <<records[1]>> ELSE <<>>)
         \o Comprehension(Tail(records), network_filter)

\* load_records(network_filter)
load_records(f, network_filter) ==
    LET records == read_json(f)
    IN  IF ~records.ok THEN Raise("JSONDecodeError")
        ELSE IF network_filter.some /\ network_filter.s # <<>>
             THEN Ok(Comprehension(OrEmpty(records), network_filter.s))
             ELSE Ok(OrEmpty(records))

----------------------------------------------------------------------------
(* The chain, as the one account of the session sees it.  txs holds the    *)
(* transactions the node accepted from the account, in order, each with    *)
(* its nonce and whether it is pending, mined or dropped.                  *)

Tx(n) == [nonce |-> n, status |-> "pending"]

\* w3.eth.get_transaction_count(address): the transactions of the account
\* in the latest block, the pending ones not counted.
get_transaction_count(t) == Cardinality({i \in 1..Len(t) : t[i].status = "mined"})

\* Transaction i is included in a block; a pending one of the same nonce is dropped.
Mined(t, i) ==
    [j \in 1..Len(t) |->
        IF j = i THEN [t[j] EXCEPT !.status = "mined"]
        ELSE IF t[j].status = "pending" /\ t[j].nonce = t[i].nonce
             THEN [t[j] EXCEPT !.status = "dropped"]
        ELSE t[j]]

\* receipt.contractAddress and tx_hash.hex(), as texts.
ContractAddr(n) == <<"0", "x", "c", DigitChars[n + 1]>>
TxHash(i) == <<"0", "x", DigitChars[i + 1]>>

N_Mumbai == <<"M", "u", "m", "b", "a", "i">>
N_Polygon == <<"P", "o", "l", "y", "g", "o", "n">>
\* CHAINS: the chain.name of the two networks.
ChainNames == {N_Mumbai, N_Polygon}

\* The constructor of each template deployed from main: SimpleStorage takes
\* no argument, DemoERC20 a name, a symbol and an initial supply.
ConstructorInputs(template) ==
    IF template = "DemoERC20"
    THEN <<Input(<<"n">>, T_string), Input(<<"s">>, T_string), Input(<<"i">>, T_uint256)>>
    ELSE <<>>
ConstructorArgs(template) ==
    IF template = "DemoERC20"
    THEN <<PStr(<<"D">>), PStr(<<"D">>), PInt(1)>>
    ELSE <<>>
Templates == {"SimpleStorage", "DemoERC20"}

\* A key of a dict must be hashable: a str, an int or a bool is, a dict is not.
Hashable(k) == "kind" \in DOMAIN k /\ k.kind \in {"str", "int", "bool"}

\* dict(zip(keys, values))
DictZip(keys, values) ==
    LET n == Min(Len(keys), Len(values))
    IN  IF \E i \in 1..n : ~Hashable(keys[i]) THEN Raise("TypeError")
        ELSE Ok([i \in 1..n |-> <<keys[i], values[i]>>])

\* The steps of the try block of a write, in order, each of which can fail.
WriteSteps == <<"build", "estimate", "gasPrice", "send", "wait">>

\* deploy_contract with the record written before the receipt is awaited.
DeploySteps_RecordEarly == <<"build", "estimate", "gasPrice", "send", "record", "wait">>

\* deploy_contract: the write steps, then add_record.
DeploySteps == WriteSteps \o <<"record">>

\* interact_with_contract with is_write.
InteractSteps == WriteSteps

\* One step of the pipeline on st = [file, txs, nonce, tx, err, added].
RunStep(st, step, call) ==
    IF step = "build" THEN [st EXCEPT !.nonce = get_transaction_count(st.txs)]
    ELSE IF step = "send"
         THEN [st EXCEPT !.txs = Append(st.txs, Tx(st.nonce)), !.tx = Len(st.txs) + 1]
    ELSE IF step = "wait" THEN [st EXCEPT !.txs = Mined(st.txs, st.tx)]
    ELSE IF step = "record"
         THEN LET d == DictZip(ConstructorInputs(call.template), call.args)
              IN  IF ~d.ok THEN [st EXCEPT !.err = d.err]
                  ELSE LET a == add_record(st.file, call.time, call.chain_name, call.template,
                                           PStr(ContractAddr(st.nonce)), TxHash(st.tx), d.val)
                       IN  IF a.out.ok THEN [st EXCEPT !.file = a.file, !.added = st.added + 1]
                           ELSE [st EXCEPT !.err = a.out.err]
    ELSE st

\* The try block: the steps in order, left at the first one that raises.
\* failAt is the step the chain makes fail ("none": no step).
RECURSIVE RunSteps(_, _, _, _, _)
RunSteps(st, steps, i, failAt, call) ==
    IF i > Len(steps) THEN st
    ELSE IF steps[i] = failAt THEN [st EXCEPT !.err = failAt]
    ELSE LET nxt == RunStep(st, steps[i], call)
         IN  IF nxt.err # "" THEN nxt ELSE RunSteps(nxt, steps, i + 1, failAt, call)

FailPoints == {"none", "build", "estimate", "gasPrice", "send", "wait"}

Start(f, t) == [file |-> f, txs |-> t, nonce |-> 0, tx |-> 0, err |-> "", added |-> 0]

\* A receipt: the transaction and the address of the contract it created.
Receipt(st) == [transactionHash |-> TxHash(st.tx), contractAddress |-> ContractAddr(st.nonce)]

\* What a call returns or raises: the except clause wraps every exception.
Outcome(st) == IF st.err = "" THEN Ok(Receipt(st)) ELSE Raise("RuntimeError")

\* deploy_contract(provider, contract, constructor_args, chain_name, contract_type)
deploy_contract(f, t, call, failAt) == RunSteps(Start(f, t), DeploySteps, 1, failAt, call)

\* interact_with_contract(contract, function_name, args, True, provider)
interact_with_contract(f, t, call, failAt) == RunSteps(Start(f, t), InteractSteps, 1, failAt, call)

----------------------------------------------------------------------------
(* The calls of a session, each run to its end before the next (the script *)
(* is single-threaded).  last records the call just made.                  *)

NoReceipt == [transactionHash |-> <<>>, contractAddress |-> <<>>]

NoCall ==
    [tick |-> 0, op |-> "none", failAt |-> "none", template |-> "", chain_name |-> <<>>,
     args |-> <<>>, filter |-> None, ok |-> TRUE, err |-> "", receipt |-> NoReceipt, records |-> <<>>,
     logBefore |-> <<>>, txsBefore |-> 0, nonce |-> 0, added |-> 0, time |-> 0]

\* The record of a call: NoCall with the fields given in c.
CallOf(op, c) ==
    [k \in DOMAIN NoCall |->
        IF k = "tick" THEN 1 - last.tick
        ELSE IF k = "op" THEN op
        ELSE IF k = "logBefore" THEN Log
        ELSE IF k = "txsBefore" THEN Len(txs)
        ELSE IF k = "time" THEN clock
        ELSE IF k \in DOMAIN c THEN c[k]
        ELSE NoCall[k]]

\* main calls ensure_dirs() at the start of every script run.
EnsureDirs ==
    /\ file' = ensure_dirs(file)
    /\ last' = CallOf("ensure_dirs", [ok |-> TRUE])
    /\ UNCHANGED <<clock, txs>>
    /\ UNCHANGED notLog

\* The addresses add_record is called with directly: one valid, one not.
DirectAddresses == {<<"0", "x", "a", "b">>, <<"0", "x", "z">>}

\* add_record(network, "SimpleStorage", address, tx_hash, {})
AddRecord(networks) ==
    /\ Len(Log) < MaxLog
    /\ \E network \in networks, address \in DirectAddresses :
          LET a == add_record(file, clock, network, "SimpleStorage", PStr(address),
                              TxHash(0), EmptyDict)
          IN  /\ file' = a.file
              /\ last' = CallOf("add_record",
                                [ok |-> a.out.ok, chain_name |-> network,
                                 added |-> IF a.out.ok THEN 1 ELSE 0])
    /\ UNCHANGED <<clock, txs>>
    /\ UNCHANGED notLog

\* load_records(network_filter)
LoadRecords(filters) ==
    /\ \E network_filter \in filters :
          LET r == load_records(file, network_filter)
          IN  last' = CallOf("load_records",
                             [ok |-> r.ok, filter |-> network_filter,
                              records |-> IF r.ok THEN r.val ELSE <<>>])
    /\ UNCHANGED <<file, clock, txs>>
    /\ UNCHANGED notLog

\* What a write call leaves: the file, the chain and the record of the call.
WriteCall(op, call, failAt, st) ==
    /\ file' = st.file
    /\ txs' = st.txs
    /\ last' = CallOf(op, [failAt |-> failAt, template |-> call.template,
                           chain_name |-> call.chain_name, args |-> call.args,
                           ok |-> Outcome(st).ok,
                           err |-> IF Outcome(st).ok THEN "" ELSE Outcome(st).err,
                           receipt |-> IF st.err = "" THEN Receipt(st) ELSE NoReceipt,
                           nonce |-> st.nonce, added |-> st.added])
    /\ UNCHANGED clock
    /\ UNCHANGED notLog

\* The deploy button: deploy_contract(provider, contract, constructor_inputs,
\* chain.name, template).
Deploy ==
    /\ Len(txs) < MaxTx
    /\ Len(Log) < MaxLog
    /\ \E template \in Templates, chain_name \in ChainNames, failAt \in FailPoints :
          LET call == [template |-> template, chain_name |-> chain_name,
                       args |-> ConstructorArgs(template), time |-> clock]
          IN  WriteCall("deploy_contract", call, failAt,
                        deploy_contract(file, txs, call, failAt))

\* A send button: interact_with_contract(contract, name, args, True, provider).
InteractWrite ==
    /\ Len(txs) < MaxTx
    /\ \E failAt \in FailPoints :
          LET call == [template |-> "SimpleStorage", chain_name |-> N_Mumbai,
                       args |-> <<>>, time |-> clock]
          IN  WriteCall("interact_with_contract", call, failAt,
                        interact_with_contract(file, txs, call, failAt))

\* A call button: interact_with_contract(contract, name, args, False), which
\* returns func(*args).call() or raises the wrapped error.
InteractRead ==
    /\ \E succeeds \in BOOLEAN :
          last' = CallOf("interact_read", [ok |-> succeeds,
                                           err |-> IF succeeds THEN "" ELSE "RuntimeError",
                                           failAt |-> IF succeeds THEN "none" ELSE "call"])
    /\ UNCHANGED <<file, clock, txs>>
    /\ UNCHANGED notLog

\* The chain includes a pending transaction of the next nonce in a block.
Mine ==
    /\ \E i \in 1..Len(txs) :
          /\ txs[i].status = "pending"
          /\ txs[i].nonce = get_transaction_count(txs)
          /\ txs' = Mined(txs, i)
    /\ UNCHANGED <<file, clock, last>>
    /\ UNCHANGED notLog

\* Time passes.
Tick ==
    /\ clock < MaxClock
    /\ clock' = clock + 1
    /\ UNCHANGED <<file, txs, last>>
    /\ UNCHANGED notLog

----------------------------------------------------------------------------
(* main: one script run, from its first line to st.stop(), to its last     *)
(* line, or to an exception that nothing in main catches.  ui holds what   *)
(* the widgets return in the run; the chain, the compiler and the RPC      *)
(* answer as they choose.                                                  *)

NoRun ==
    [pc |-> "idle",
     ui |-> [connect |-> FALSE, deploy_button |-> FALSE, send_button |-> FALSE,
             call_button |-> FALSE, query_button |-> FALSE, address_ok |-> FALSE,
             template |-> "SimpleStorage", contract_type |-> "SimpleStorage",
             chain_name |-> N_Mumbai, raw |-> <<>>],
     messages |-> <<>>,   \* st.info / st.success / st.error shown, in order
     raised |-> <<>>,     \* the errors raised in the run, in order
     escaped |-> "",      \* the error that left main uncaught, if any
     effects |-> {}]      \* the operations the run performed

\* The raw texts typed into the field of the write function set(uint256).
FieldTexts == {<<"7">>, <<"x">>}

Widgets ==
    [connect : BOOLEAN, deploy_button : BOOLEAN, send_button : BOOLEAN,
     call_button : BOOLEAN, query_button : BOOLEAN, address_ok : BOOLEAN,
     template : Templates, contract_type : Templates,
     chain_name : {N_Mumbai}, raw : FieldTexts]

Count(b) == IF b THEN 1 ELSE 0

\* The run is over (st.stop(), the last line, or an uncaught exception) and
\* the page waits for the next click.
MWait ==
    /\ run.pc \in {"stopped", "done", "crashed"}
    /\ run' = NoRun
    /\ UNCHANGED <<cache, logVars, notMain>>

\* A rerun of the script: Streamlit runs main from the top on every click.
NewRun ==
    /\ run.pc = "idle"
    /\ \E ui \in Widgets :
          /\ Len(txs) + Count(ui.deploy_button) + Count(ui.send_button) <= MaxTx
          /\ Len(Log) + Count(ui.deploy_button) <= MaxLog
          /\ run' = [NoRun EXCEPT !.pc = "start", !.ui = ui]
    /\ UNCHANGED <<cache, logVars, notMain>>

At(pc) == run.pc = pc
Goto(r, pc) == [r EXCEPT !.pc = pc]
Show(r, msg) == [r EXCEPT !.messages = Append(r.messages, msg)]
\* An exception caught by the except clause around it: one st.error.
Caught(r, kind) == Show([r EXCEPT !.raised = Append(r.raised, kind)], "error")
\* An exception raised outside every try of main: the run ends with it.
Escapes(r, kind) ==
    [r EXCEPT !.raised = Append(r.raised, kind), !.escaped = kind, !.pc = "crashed"]
Did(r, what) == [r EXCEPT !.effects = r.effects \cup {what}]

\* st.set_page_config; ensure_dirs(); load_env() (lines 285-287).
MStart ==
    /\ At("start")
    /\ file' = ensure_dirs(file)
    /\ run' = Goto(run, "sidebar")
    /\ UNCHANGED <<cache, clock, txs, last, notMain>>

\* The sidebar and "if not connect: st.info(...); st.stop()" (lines 293-310).
\* "if not connect: st.info(...)" without the st.stop() after it.
ConnectGate_NoStop(r) ==
    IF r.ui.connect THEN Goto(r, "connect") ELSE Goto(Show(r, "info"), "connect")

\* if not connect: st.info(...); st.stop() (lines 308-310).
ConnectGate(r) ==
    IF r.ui.connect THEN Goto(r, "connect") ELSE Goto(Show(r, "info"), "stopped")

MSidebar ==
    /\ At("sidebar")
    /\ run' = ConnectGate(run)
    /\ UNCHANGED <<cache, logVars, notMain>>

\* try: provider = Web3Provider(...) except: st.error; st.stop() (lines 312-316).
MConnect ==
    /\ At("connect")
    /\ \E connected \in BOOLEAN :
          run' = IF connected THEN Goto(run, "metrics")
                 ELSE Goto(Caught(run, "ConnectionFailed"), "stopped")
    /\ UNCHANGED <<cache, logVars, notMain>>

\* provider.balance_eth() and chain_id, outside every try (lines 318-325).
MMetrics ==
    /\ At("metrics")
    /\ \E answered \in BOOLEAN :
          run' = IF answered THEN Goto(run, "compiler") ELSE Escapes(run, "RpcError")
    /\ UNCHANGED <<cache, logVars, notMain>>

\* compiler = Compiler(): set_solc_version, or install_solc (lines 335, 108-114).
MCompiler ==
    /\ At("compiler")
    /\ \E installed \in BOOLEAN :
          run' = IF installed THEN Goto(run, "deployCompile") ELSE Escapes(run, "SolcError")
    /\ UNCHANGED <<cache, logVars, notMain>>

\* Where each tab goes on after it has the ABI.
AfterCompile(pc) ==
    IF pc = "deployCompile" THEN "deployButton"
    ELSE IF pc = "interactCompile" THEN "sendButton"
    ELSE "eventsQuery"
TabTemplate(r) ==
    IF r.pc = "deployCompile" THEN r.ui.template
    ELSE IF r.pc = "interactCompile" THEN r.ui.contract_type
    ELSE "SimpleStorage"

\* cached = compiler.load_cached(t); abi = cached or compiler.compile(t, ...)
\* (lines 353-354, 387-388, 421-425): compile raises ValueError when the
\* contract is not among the compiled units, and no try encloses the call.
CompileStep(r, c, found) ==
    IF TabTemplate(r) \in c \/ found THEN Goto(r, AfterCompile(r.pc))
    ELSE Escapes(r, "CompileError")

MCompile ==
    /\ run.pc \in {"deployCompile", "interactCompile", "eventsCompile"}
    /\ \E found \in BOOLEAN :
          /\ run' = CompileStep(run, cache, found)
          /\ cache' = IF TabTemplate(run) \notin cache /\ found
                      THEN cache \cup {TabTemplate(run)} ELSE cache
    /\ UNCHANGED <<logVars, notMain>>

\* if deploy_button: try: deploy_contract(...) except: st.error (lines 369-381).
MDeployButton ==
    /\ At("deployButton")
    /\ IF run.ui.deploy_button
       THEN \E failAt \in FailPoints :
               LET call == [template |-> run.ui.template, chain_name |-> run.ui.chain_name,
                            args |-> ConstructorArgs(run.ui.template), time |-> clock]
                   st == deploy_contract(file, txs, call, failAt)
                   r == Did(IF st.added > 0 THEN Did(run, "add_record") ELSE run,
                            "deploy_contract")
               IN  /\ file' = st.file
                   /\ txs' = st.txs
                   /\ run' = Goto(IF Outcome(st).ok THEN Show(r, "success")
                                  ELSE Caught(r, "InteractionFailed"), "interactCompile")
       ELSE /\ run' = Goto(run, "interactCompile")
            /\ UNCHANGED <<file, txs>>
    /\ UNCHANGED <<cache, clock, last, notMain>>

\* The write function of the contract, set(uint256), and its send button:
\* try: convert_args; interact_with_contract(..., True, provider) except:
\* st.error (lines 391-409).
SetInputs == <<Input(<<"x">>, T_uint256)>>
MSendButton ==
    /\ At("sendButton")
    /\ IF run.ui.address_ok /\ run.ui.send_button
       THEN LET args == convert_args(SetInputs, <<run.ui.raw>>)
            IN  IF ~args.ok
                THEN /\ run' = Goto(Caught(run, "InvalidArgument"), "callButton")
                     /\ UNCHANGED <<file, txs>>
                ELSE \E failAt \in FailPoints :
                        LET call == [template |-> run.ui.contract_type,
                                     chain_name |-> run.ui.chain_name,
                                     args |-> args.val, time |-> clock]
                            st == interact_with_contract(file, txs, call, failAt)
                            r == Did(run, "interact_with_contract")
                        IN  /\ file' = st.file
                            /\ txs' = st.txs
                            /\ run' = Goto(IF Outcome(st).ok THEN Show(r, "success")
                                           ELSE Caught(r, "InteractionFailed"), "callButton")
       ELSE /\ run' = Goto(run, "callButton")
            /\ UNCHANGED <<file, txs>>
    /\ UNCHANGED <<cache, clock, last, notMain>>

\* The read function get() and its call button (lines 391-409).
MCallButton ==
    /\ At("callButton")
    /\ IF run.ui.address_ok /\ run.ui.call_button
       THEN \E returned \in BOOLEAN :
               LET r == Did(run, "interact_with_contract")
               IN  run' = Goto(IF returned THEN Show(r, "result")
                               ELSE Caught(r, "InteractionFailed"), "eventsCompile")
       ELSE run' = Goto(run, "eventsCompile")
    /\ UNCHANGED <<cache, logVars, notMain>>

\* provider.w3.eth.block_number outside every try (line 427), then
\* if st.button: try: get_logs except: st.error (lines 432-450).
MEvents ==
    /\ At("eventsQuery")
    /\ \E answered \in BOOLEAN, logs \in BOOLEAN :
          run' = IF ~answered THEN Escapes(run, "RpcError")
                 ELSE IF run.ui.address_ok /\ run.ui.query_button
                      THEN LET r == Did(run, "get_logs")
                           IN  Goto(IF logs THEN Show(r, "result") ELSE Caught(r, "QueryFailed"),
                                    "records")
                 ELSE Goto(run, "records")
    /\ UNCHANGED <<cache, logVars, notMain>>

\* records = load_records(chain.name) and their rendering (lines 453-466).
MRecords ==
    /\ At("records")
    /\ LET r == load_records(file, Some(run.ui.chain_name))
       IN  run' = IF r.ok THEN Goto(Show(run, IF r.val = <<>> THEN "info" ELSE "records"), "done")
                  ELSE Escapes(run, "JSONDecodeError")
    /\ UNCHANGED <<cache, logVars, notMain>>

----------------------------------------------------------------------------
(* add_record step by step, by two sessions on the one deployments.json:   *)
(* read_json, then write_json as open(p, "w"), which truncates the file,   *)
(* the writes of json.dump as the buffer is flushed, each at the offset of *)
(* the writer's own file object, and the close.  A call can also be        *)
(* interrupted between its open and its close.  (Cells stand for records   *)
(* of equal size.)                                                         *)

Procs == {1, 2}
Other(p) == 3 - p

\* The two calls: add_record(network, "SimpleStorage", address, tx_hash, {}).
ProcNetwork(p) == IF p = 1 THEN N_Mumbai ELSE N_Polygon
ProcAddress(p) == IF p = 1 THEN <<"0", "x", "a", "1">> ELSE <<"0", "x", "b", "2">>
ProcList(f, p) ==
    NewRecords(f, clock, ProcNetwork(p), "SimpleStorage", PStr(ProcAddress(p)), TxHash(p),
               EmptyDict)
\* The record the call of p adds.
ProcRecord(p) == ProcList(NoFile, p).list[1]

\* The logs the calls start from: absent, or n records added one by one.
RECURSIVE SeedFile(_)
SeedFile(n) ==
    IF n = 0 THEN ensure_dirs(NoFile)
    ELSE add_record(SeedFile(n - 1), 0, IF n % 2 = 1 THEN N_Mumbai ELSE N_Polygon,
                    "SimpleStorage", PStr(<<"0", "x", "c", DigitChars[n + 1]>>), TxHash(0),
                    EmptyDict).file
BaseFiles == {NoFile} \cup {SeedFile(n) : n \in 0..MaxLog}

ConcIdle ==
    [base |-> NoFile,
     pc |-> [p \in Procs |-> "idle"],
     records |-> [p \in Procs |-> <<>>],
     pos |-> [p \in Procs |-> 0],
     order |-> <<>>,       \* the calls in the order they read the file
     overlap |-> FALSE]    \* a call read the file while the other was writing it

\* write(cell) at offset i of a file: past the end, the gap reads as NULs.
WriteAt(cells, i, c) ==
    IF i <= Len(cells) THEN [cells EXCEPT ![i] = c]
    ELSE cells \o [k \in 1..(i - 1 - Len(cells)) |-> NulCell] \o <<c>>
RECURSIVE WriteRun(_, _, _)
WriteRun(cells, pos, chunk) ==
    IF chunk = <<>> THEN cells
    ELSE WriteRun(WriteAt(cells, pos + 1, chunk[1]), pos + 1, Tail(chunk))

\* records = read_json(DEPLOYMENTS_FILE) or []; records.append({...})
ARead(p) ==
    /\ conc.pc[p] = "idle"
    /\ LET n == ProcList(file, p)
       IN  conc' = [conc EXCEPT
                       !.pc[p] = IF n.out.ok THEN "open" ELSE "failed",
                       !.records[p] = n.list,
                       !.order = Append(conc.order, p),
                       !.overlap = conc.overlap \/ conc.pc[Other(p)] \in {"open", "dump"}]
    /\ UNCHANGED <<file, clock, txs, last, coerceVars, mainVars>>

\* with open(p, "w") as f: the file is created or truncated.
AOpen(p) ==
    /\ conc.pc[p] = "open"
    /\ file' = [exists |-> TRUE, cells |-> <<>>]
    /\ conc' = [conc EXCEPT !.pc[p] = "dump", !.pos[p] = 0]
    /\ UNCHANGED <<clock, txs, last, coerceVars, mainVars>>

\* json.dump(data, f): the next k cells of the document reach the file.
AWrite(p) ==
    /\ conc.pc[p] = "dump"
    /\ LET doc == Doc(conc.records[p])
       IN  \E k \in 1..(Len(doc) - conc.pos[p]) :
              /\ file' = [exists |-> TRUE,
                          cells |-> WriteRun(file.cells, conc.pos[p],
                                             SubSeq(doc, conc.pos[p] + 1, conc.pos[p] + k))]
              /\ conc' = [conc EXCEPT !.pos[p] = conc.pos[p] + k]
    /\ UNCHANGED <<clock, txs, last, coerceVars, mainVars>>

\* The with block ends: everything is written and the file is closed.
AClose(p) ==
    /\ conc.pc[p] = "dump"
    /\ conc.pos[p] = Len(Doc(conc.records[p]))
    /\ conc' = [conc EXCEPT !.pc[p] = "done"]
    /\ UNCHANGED <<file, clock, txs, last, coerceVars, mainVars>>

\* The call is interrupted (the process is killed, the disk is full) after
\* its open and before everything is written.
AInterrupt(p) ==
    /\ conc.pc[p] = "dump"
    /\ conc.pos[p] < Len(Doc(conc.records[p]))
    /\ conc' = [conc EXCEPT !.pc[p] = "interrupted"]
    /\ UNCHANGED <<file, clock, txs, last, coerceVars, mainVars>>

----------------------------------------------------------------------------
(* Specifications.                                                         *)

CoerceIdle == inputs_abi = <<>> /\ args_raw = <<>> /\ converted = NotCalled
LogIdle == file = NoFile /\ clock = 0 /\ txs = <<>> /\ last = NoCall
MainIdle == run = NoRun /\ cache = {} /\ conc = ConcIdle

\* convert_args on each of the enumerated calls.
InitCoerce == (\E c \in CoerceCalls : CoerceInputsAre(c)) /\ LogIdle /\ MainIdle
NextCoerce == Convert
SpecCoerce == InitCoerce /\ [][NextCoerce]_vars

\* A session: the log, the write pipeline and the chain.
Init == CoerceIdle /\ LogIdle /\ MainIdle
Next ==
    \/ EnsureDirs
    \/ AddRecord(ChainNames)
    \/ LoadRecords({None, Some(N_Mumbai), Some(N_Polygon)})
    \/ Deploy
    \/ InteractWrite
    \/ InteractRead
    \/ Mine
    \/ Tick
Spec == Init /\ [][Next]_vars

\* The deployment recorder alone, on network names and filters of mixed case.
NetworkNames ==
    { N_Mumbai, <<"m", "u", "m", "b", "a", "i">>, <<"M", "U", "M">>, N_Polygon,
      <<"x", "M", "u", "m">> }
Filters ==
    { None, Some(<<>>), Some(N_Mumbai), Some(<<"m", "u", "m">>),
      Some(<<"M", "U", "M", "B", "A", "I">>), Some(<<"p", "o", "l", "y">>),
      Some(<<"M", "u", "m", "b", "a", "i", "2">>) }
NextLog ==
    \/ EnsureDirs
    \/ AddRecord(NetworkNames)
    \/ LoadRecords(Filters)
    \/ Tick
SpecLog == Init /\ [][NextLog]_vars

\* The script runs of main, one after another, against the chain.
NextMain ==
    \/ NewRun
    \/ MWait
    \/ MStart
    \/ MSidebar
    \/ MConnect
    \/ MMetrics
    \/ MCompiler
    \/ MCompile
    \/ MDeployButton
    \/ MSendButton
    \/ MCallButton
    \/ MEvents
    \/ MRecords
    \/ Mine
SpecMain == Init /\ [][NextMain]_vars

\* Two add_record calls, interleaved step by step, on each starting log.
InitConc ==
    /\ CoerceIdle
    /\ run = NoRun /\ cache = {}
    /\ clock = 0 /\ txs = <<>> /\ last = NoCall
    /\ \E f \in BaseFiles : file = f /\ conc = [ConcIdle EXCEPT !.base = f]
NextConc ==
    \E p \in Procs :
        \/ ARead(p)
        \/ AOpen(p)
        \/ AWrite(p)
        \/ AClose(p)
        \/ AInterrupt(p)
SpecConc == InitConc /\ [][NextConc]_vars

----------------------------------------------------------------------------
(* Claims about the write pipeline and the log, checked under Spec.         *)

IsPrefix(a, b) == Len(a) <= Len(b) /\ SubSeq(b, 1, Len(a)) = a

\* C2: a deploy_contract call in which build, gas estimation, submit and
\* wait all succeed returns the receipt and appends exactly one record, whose
\* constructor_args maps each declared parameter name to its argument, for a
\* constructor of no parameter and for one of several.
C2_DeployRecordsOnce ==
    (last.op = "deploy_contract" /\ last.failAt = "none")
        => /\ last.ok
           /\ last.receipt # NoReceipt
           /\ Len(Log) = Len(last.logBefore) + 1
           /\ IsPrefix(last.logBefore, Log)
           /\ LET r == Log[Len(Log)]
                  inputs == ConstructorInputs(last.template)
              IN  /\ Len(r.constructor_args) = Len(inputs)
                  /\ \A i \in 1..Len(inputs) :
                        r.constructor_args[i] = <<PStr(inputs[i].name), last.args[i]>>

\* C3: a write call in which a step fails raises the one wrapped error,
\* returns no receipt and leaves the log as it was; a failure before the
\* submit (build, gas estimation, gas price) or of the submit itself leaves
\* no transaction submitted.
C3_FailedWriteLeavesNothing ==
    (last.op \in {"deploy_contract", "interact_with_contract"} /\ last.failAt # "none")
        => /\ ~last.ok
           /\ last.err = "RuntimeError"
           /\ last.receipt = NoReceipt
           /\ last.added = 0
           /\ Log = last.logBefore
           /\ (last.failAt \in {"build", "estimate", "gasPrice", "send"}
                  => Len(txs) = last.txsBefore)

\* C3: a deployment whose gas estimation failed, on a log that holds a record.
C3_Witness ==
    /\ last.op = "deploy_contract"
    /\ last.failAt = "estimate"
    /\ last.template = "SimpleStorage"
    /\ Len(last.logBefore) >= 1

\* C5: every step keeps the log as a prefix of the log after it; a step in
\* which add_record returns adds exactly one record, any other step none.
C5_AppendOnly ==
    [][/\ IsPrefix(Log, Log')
       /\ Len(Log') = Len(Log) + (IF last'.tick # last.tick THEN last'.added ELSE 0)]_vars

\* C5: ensure_dirs has run on a log of two records and left them.
C5_Witness ==
    /\ last.op = "ensure_dirs"
    /\ Len(last.logBefore) = MaxLog
    /\ Log = last.logBefore

\* C8: no two transactions the session submitted carry the same nonce: a
\* later one has a nonce greater than every earlier one, also after a call
\* that failed while waiting for the receipt.
C8_DistinctNonces ==
    \A i, j \in 1..Len(txs) : i < j => txs[i].nonce < txs[j].nonce

----------------------------------------------------------------------------
(* The claim about load_records, checked under SpecLog.                     *)

\* The name starts with the filter, letter case apart.
NetMatches(n, f) == Len(f) <= Len(n) /\ \A k \in 1..Len(f) : LowerChar(n[k]) = LowerChar(f[k])
MatchIdx(f) == {i \in 1..Len(Log) : NetMatches(Log[i].network, f)}
\* The j-th smallest index of S.
Kth(S, j) == CHOOSE i \in S : Cardinality({m \in S : m <= i}) = j

\* C4: load_records(f) with a non-empty f returns the stored records whose
\* network starts with f, letter case apart, each once and in the order of
\* the log; without a filter it returns the whole log.
C4_FilterIsOrderedSubset ==
    (last.op = "load_records")
        => /\ last.ok
           /\ IF last.filter.some /\ last.filter.s # <<>>
              THEN /\ Len(last.records) = Cardinality(MatchIdx(last.filter.s))
                   /\ \A j \in 1..Len(last.records) :
                         last.records[j] = Log[Kth(MatchIdx(last.filter.s), j)]
              ELSE last.records = Log

\* C4: a filter has kept some records and left some out, and one it kept
\* has a network that differs from the filter (in case or in length).
C4_Witness ==
    /\ last.op = "load_records"
    /\ last.filter.some
    /\ last.filter.s # <<>>
    /\ Len(last.records) >= 1
    /\ Len(last.records) < Len(Log)
    /\ \E j \in 1..Len(last.records) : last.records[j].network # last.filter.s

----------------------------------------------------------------------------
(* The claim about the errors of a script run, checked under SpecMain.      *)

\* The error kinds the propagation policy names.
PolicyKinds ==
    {"InvalidArgument", "UnsupportedType", "ConnectionFailed", "InteractionFailed",
     "CompileError"}

ErrorsShown(r) == Cardinality({i \in 1..Len(r.messages) : r.messages[i] = "error"})

\* C6: no error of the named kinds (coercion, unsupported array type,
\* connection, write pipeline, compile) leaves main uncaught, and in a run
\* that nothing left uncaught every error raised was shown as one message.
C6_AllCaughtInline ==
    /\ run.escaped \notin PolicyKinds
    /\ (run.escaped = "" => ErrorsShown(run) = Len(run.raised))


----------------------------------------------------------------------------
(* Claims about add_record step by step, under SpecConc.                   *)

BaseLog == OrEmpty(read_json(conc.base))
BothDone == \A p \in Procs : conc.pc[p] = "done"

\* C9: while one add_record call runs alone (the other session has not
\* started), at each of its steps, an interruption included, the stored
\* file is a complete document holding the old records or the old records
\* and the new one: never empty, truncated or partly written.
C9_AtomicRewrite ==
    (conc.pc[1] # "idle" /\ conc.pc[2] = "idle") =>
        \/ file = conc.base
        \/ /\ file.exists
           /\ IsDoc(file.cells)
           /\ DocRecords(file.cells) \in {BaseLog, Append(BaseLog, ProcRecord(1))}

\* C10: when two add_record calls have both returned and neither read the
\* file while the other was between its read and its close, the log is the
\* starting log followed by both new records in the order of the calls.
C10_SequentialKeepsBoth ==
    (BothDone /\ ~conc.overlap) =>
        /\ file.exists
        /\ IsDoc(file.cells)
        /\ DocRecords(file.cells) =
               BaseLog \o <<ProcRecord(conc.order[1]), ProcRecord(conc.order[2])>>

\* Both calls returned, and the log holds the starting records and only one
\* of the two new records: an update was lost.
C10_Witness ==
    /\ BothDone
    /\ conc.overlap
    /\ file.exists
    /\ IsDoc(file.cells)
    /\ \E p \in Procs : DocRecords(file.cells) = Append(BaseLog, ProcRecord(p))

----------------------------------------------------------------------------
(* Claims about the connect button of main, under SpecMain.                *)

ChainCalls == {"deploy_contract", "interact_with_contract", "get_logs"}
BeforeTabs == {"idle", "start", "sidebar", "stopped"}
ActionButtons(ui) ==
    Count(ui.deploy_button) + Count(ui.send_button) + Count(ui.call_button)
        + Count(ui.query_button)
\* The run was triggered by the deploy, send, call or query button: that
\* button alone is true in it.
ActionClick(ui) == ~ui.connect /\ ActionButtons(ui) = 1

ConnectGates(r) ==
    /\ (r.effects \cap ChainCalls # {} =>
            /\ r.ui.connect
            /\ \A i \in 1..Len(r.raised) : r.raised[i] # "ConnectionFailed")
    /\ (~r.ui.connect => r.pc \in BeforeTabs)
    /\ (ActionClick(r.ui) => r.effects = {})

\* C11: in every run, deploy_contract, interact_with_contract and get_logs
\* run only if connect was true in that run and the provider was built; a
\* run with connect false stops before any tab; so each step of a run in
\* which only the deploy, send, call or query button is true performs no
\* chain call, submits no transaction and leaves the log as it was.
C11_ConnectGatesActions ==
    [][/\ ConnectGates(run')
       /\ (ActionClick(run.ui) /\ run'.ui = run.ui =>
               /\ Log' = Log
               /\ Len(txs') = Len(txs))]_vars

\* A run triggered by the deploy button alone has ended at st.stop() with
\* the connect hint as its only message.
C11_Witness ==
    /\ run.pc = "stopped"
    /\ ActionClick(run.ui)
    /\ run.ui.deploy_button
    /\ run.messages = <<"info">>
    /\ run.effects = {}

=============================================================================
